---- MODULE Spec2Model ----
(***************************************************************************)
(* Model of tools/verify_attestation.py: the host-side verifier of H-Gate  *)
(* attestation packets (verify_attestation) and signed boot images         *)
(* (verify_image).                                                         *)
(*                                                                         *)
(* Bytes are naturals 0..255 and byte strings are sequences of them.  A    *)
(* hex string is a sequence of hex digits 0..15.  The two library          *)
(* primitives the script calls, Ed25519 (PyNaCl) and SHA-256 (hashlib),    *)
(* are replaced by small keyed checksums with the property the script      *)
(* relies on: over the inputs enumerated here, changing any byte of the    *)
(* message, the key or the signature changes the outcome.                  *)
(***************************************************************************)
EXTENDS Naturals, Sequences, FiniteSets

VARIABLES
    last,          \* the most recent sequential call: its arguments and result
    last_counter,  \* per public key: counter of the latest attestation reported valid
    prev_counter,  \* last_counter as it was before the latest call (or thread step)
    pc,            \* concurrent runs: each thread's position in verify_attestation
    targ,          \* concurrent runs: each thread's arguments
    tres           \* concurrent runs: each thread's result

vars == <<last, last_counter, prev_counter, pc, targ, tres>>

(***************************************************************************)
(* Sizes of the wire formats.                                              *)
(***************************************************************************)
KeyLen == 32
SigLen == 64
MinPacketLen == 40
CounterLen == 8
HeaderLen == 100
MagicLen == 4
HashLen == 32
Byte == 256

\* b"HGAT"
HGAT == <<72, 71, 65, 84>>

(***************************************************************************)
(* Byte-string helpers.                                                    *)
(***************************************************************************)
Min(a, b) == IF a < b THEN a ELSE b

Rep(b, n) == [i \in 1..n |-> b]

\* s[from:to] of Python, 0-based and end-exclusive, clipped to the string
Slice(s, from, to) == SubSeq(s, from + 1, Min(to, Len(s)))

\* sum over j of weight(j) * (s[j] + 1), weight(j) = j when byPos, else 1
RECURSIVE WSum(_, _, _)
WSum(s, n, byPos) ==
    IF n = 0 THEN 0
    ELSE (IF byPos THEN n ELSE 1) * (s[n] + 1) + WSum(s, n - 1, byPos)

\* the hex text of a byte string, as the caller passes a key on the command line
HexOf(b) ==
    [i \in 1..(2 * Len(b)) |->
        IF i % 2 = 1 THEN b[(i + 1) \div 2] \div 16 ELSE b[i \div 2] % 16]

\* bytes.fromhex raises ValueError on an odd number of digits
HexOk(h) == Len(h) % 2 = 0

\* bytes.fromhex
FromHex(h) == [i \in 1..(Len(h) \div 2) |-> 16 * h[2 * i - 1] + h[2 * i]]

(***************************************************************************)
(* Stand-ins for the library primitives.                                   *)
(***************************************************************************)
\* the signature the holder of the private key of `key` makes over msg
Sign(key, msg) ==
    LET s0 == WSum(msg, Len(msg), TRUE) % Byte
        s1 == WSum(msg, Len(msg), FALSE) % Byte
    IN  [i \in 1..SigLen |-> (key[((i - 1) % KeyLen) + 1] + s0 + i * s1) % Byte]

\* VerifyKey.verify(msg, sig) for a 32-byte key and a 64-byte signature:
\* TRUE when it returns, FALSE when it raises BadSignatureError
Ed25519Verify(key, msg, sig) == sig = Sign(key, msg)

\* hashlib.sha256(payload).digest()
SHA256(payload) ==
    LET s0 == WSum(payload, Len(payload), TRUE) % Byte
        s1 == WSum(payload, Len(payload), FALSE) % Byte
    IN  [i \in 1..HashLen |-> (99 + i * i + s0 + i * s1) % Byte]

(***************************************************************************)
(* Counters.  struct.unpack_from("<Q", packet, 0) reads 8 bytes, least     *)
(* significant first.  The value is kept as its base-256 numeral, most     *)
(* significant digit first, since 2^64 - 1 is beyond TLC's integers.       *)
(***************************************************************************)
NoCounter == <<>>

\* variant: the counter read most significant byte first (">Q")
UnpackQ_BigEndian(packet) == [i \in 1..CounterLen |-> packet[i]]

UnpackQ(packet) == [i \in 1..CounterLen |-> packet[CounterLen + 1 - i]]

(***************************************************************************)
(* Results.  ret is "True" or "False" for the returned bool and            *)
(* "ValueError" when the call ends in that exception; msg names the line   *)
(* printed; ops lists the operations the call performed, in order.         *)
(***************************************************************************)
Result(ret, msg, ops, counter, pcr, digest) ==
    [ret |-> ret, msg |-> msg, ops |-> ops,
     counter |-> counter, pcr |-> pcr, digest |-> digest]

Fail(msg, ops) == Result("False", msg, ops, NoCounter, <<>>, <<>>)

Raise(ops) == Result("ValueError", "traceback", ops, NoCounter, <<>>, <<>>)

NoResult == Result("none", "none", <<>>, NoCounter, <<>>, <<>>)

(***************************************************************************)
(* verify_attestation(pubkey_hex, packet, sig)                             *)
(*                                                                         *)
(* Line 21, outside the try block: bytes.fromhex raises ValueError on an   *)
(* odd number of digits and VerifyKey raises it on a key that is not 32    *)
(* bytes.  Line 23: PyNaCl's verify raises ValueError on a signature that  *)
(* is not 64 bytes, and BadSignatureError, the one exception handled       *)
(* (line 34), on one that does not verify.  The length of the packet is    *)
(* looked at only after the signature has verified (line 25).              *)
(***************************************************************************)
\* variant: the signature checked over the 40 parsed bytes only
verify_attestation_SignsParsedOnly(pubkey_hex, packet, sig) ==
    IF ~HexOk(pubkey_hex) THEN Raise(<<"fromhex">>)
    ELSE IF Len(FromHex(pubkey_hex)) # KeyLen THEN Raise(<<"fromhex", "VerifyKey">>)
    ELSE IF Len(sig) # SigLen THEN Raise(<<"fromhex", "VerifyKey", "verify">>)
    ELSE IF ~Ed25519Verify(FromHex(pubkey_hex), Slice(packet, 0, MinPacketLen), sig)
         THEN Fail("signature_mismatch", <<"fromhex", "VerifyKey", "verify">>)
    ELSE IF Len(packet) < MinPacketLen
         THEN Fail("too_short", <<"fromhex", "VerifyKey", "verify", "len">>)
    ELSE Result("True", "valid",
                <<"fromhex", "VerifyKey", "verify", "len", "unpack">>,
                UnpackQ(packet), Slice(packet, 8, 40), <<>>)

\* variant: the length checked before the signature
verify_attestation_LengthFirst(pubkey_hex, packet, sig) ==
    IF ~HexOk(pubkey_hex) THEN Raise(<<"fromhex">>)
    ELSE IF Len(FromHex(pubkey_hex)) # KeyLen THEN Raise(<<"fromhex", "VerifyKey">>)
    ELSE IF Len(packet) < MinPacketLen
         THEN Fail("too_short", <<"fromhex", "VerifyKey", "len">>)
    ELSE IF Len(sig) # SigLen THEN Raise(<<"fromhex", "VerifyKey", "len", "verify">>)
    ELSE IF ~Ed25519Verify(FromHex(pubkey_hex), packet, sig)
         THEN Fail("signature_mismatch", <<"fromhex", "VerifyKey", "len", "verify">>)
    ELSE Result("True", "valid",
                <<"fromhex", "VerifyKey", "len", "verify", "unpack">>,
                UnpackQ(packet), Slice(packet, 8, 40), <<>>)

verify_attestation(pubkey_hex, packet, sig) ==
    IF ~HexOk(pubkey_hex) THEN Raise(<<"fromhex">>)
    ELSE IF Len(FromHex(pubkey_hex)) # KeyLen THEN Raise(<<"fromhex", "VerifyKey">>)
    ELSE IF Len(sig) # SigLen THEN Raise(<<"fromhex", "VerifyKey", "verify">>)
    ELSE IF ~Ed25519Verify(FromHex(pubkey_hex), packet, sig)
         THEN Fail("signature_mismatch", <<"fromhex", "VerifyKey", "verify">>)
    ELSE IF Len(packet) < MinPacketLen
         THEN Fail("too_short", <<"fromhex", "VerifyKey", "verify", "len">>)
    ELSE Result("True", "valid",
                <<"fromhex", "VerifyKey", "verify", "len", "unpack">>,
                UnpackQ(packet), Slice(packet, 8, 40), <<>>)

(***************************************************************************)
(* verify_image(pubkey_hex, image_path); file is the content of the image  *)
(***************************************************************************)
\* variant: the signature checked before the payload hash
verify_image_SignatureFirst(pubkey_hex, file) ==
    LET header == Slice(file, 0, HeaderLen)
        magic == Slice(header, 0, MagicLen)
        sig == Slice(header, 4, 68)
        payload_hash == Slice(header, 68, 100)
        payload == Slice(file, HeaderLen, Len(file))
        computed == SHA256(payload)
    IN  IF Len(header) < HeaderLen THEN Fail("header_short", <<"read">>)
        ELSE IF magic # HGAT THEN Fail("bad_magic", <<"read", "magic">>)
        ELSE IF ~HexOk(pubkey_hex)
             THEN Raise(<<"read", "magic", "fromhex">>)
        ELSE IF Len(FromHex(pubkey_hex)) # KeyLen
             THEN Raise(<<"read", "magic", "fromhex", "VerifyKey">>)
        ELSE IF ~Ed25519Verify(FromHex(pubkey_hex), payload_hash, sig)
             THEN Fail("image_signature_invalid",
                       <<"read", "magic", "fromhex", "VerifyKey", "verify">>)
        ELSE IF computed # payload_hash
             THEN Fail("hash_mismatch",
                       <<"read", "magic", "fromhex", "VerifyKey", "verify", "sha256">>)
        ELSE Result("True", "image_verified",
                    <<"read", "magic", "fromhex", "VerifyKey", "verify", "sha256">>,
                    NoCounter, <<>>, computed)

\* variant: the magic compared after the payload hash
verify_image_MagicLate(pubkey_hex, file) ==
    LET header == Slice(file, 0, HeaderLen)
        magic == Slice(header, 0, MagicLen)
        sig == Slice(header, 4, 68)
        payload_hash == Slice(header, 68, 100)
        payload == Slice(file, HeaderLen, Len(file))
        computed == SHA256(payload)
    IN  IF Len(header) < HeaderLen THEN Fail("header_short", <<"read">>)
        ELSE IF computed # payload_hash
             THEN Fail("hash_mismatch", <<"read", "sha256">>)
        ELSE IF magic # HGAT THEN Fail("bad_magic", <<"read", "sha256", "magic">>)
        ELSE IF ~HexOk(pubkey_hex)
             THEN Raise(<<"read", "sha256", "magic", "fromhex">>)
        ELSE IF Len(FromHex(pubkey_hex)) # KeyLen
             THEN Raise(<<"read", "sha256", "magic", "fromhex", "VerifyKey">>)
        ELSE IF ~Ed25519Verify(FromHex(pubkey_hex), payload_hash, sig)
             THEN Fail("image_signature_invalid",
                       <<"read", "sha256", "magic", "fromhex", "VerifyKey", "verify">>)
        ELSE Result("True", "image_verified",
                    <<"read", "sha256", "magic", "fromhex", "VerifyKey", "verify">>,
                    NoCounter, <<>>, computed)

\* variant: the signature checked over the payload instead of its hash
verify_image_SignsPayload(pubkey_hex, file) ==
    LET header == Slice(file, 0, HeaderLen)
        magic == Slice(header, 0, MagicLen)
        sig == Slice(header, 4, 68)
        payload_hash == Slice(header, 68, 100)
        payload == Slice(file, HeaderLen, Len(file))
        computed == SHA256(payload)
    IN  IF Len(header) < HeaderLen THEN Fail("header_short", <<"read">>)
        ELSE IF magic # HGAT THEN Fail("bad_magic", <<"read", "magic">>)
        ELSE IF computed # payload_hash
             THEN Fail("hash_mismatch", <<"read", "magic", "sha256">>)
        ELSE IF ~HexOk(pubkey_hex)
             THEN Raise(<<"read", "magic", "sha256", "fromhex">>)
        ELSE IF Len(FromHex(pubkey_hex)) # KeyLen
             THEN Raise(<<"read", "magic", "sha256", "fromhex", "VerifyKey">>)
        ELSE IF ~Ed25519Verify(FromHex(pubkey_hex), payload, sig)
             THEN Fail("image_signature_invalid",
                       <<"read", "magic", "sha256", "fromhex", "VerifyKey", "verify">>)
        ELSE Result("True", "image_verified",
                    <<"read", "magic", "sha256", "fromhex", "VerifyKey", "verify">>,
                    NoCounter, <<>>, computed)

verify_image(pubkey_hex, file) ==
    LET header == Slice(file, 0, HeaderLen)
        magic == Slice(header, 0, MagicLen)
        sig == Slice(header, 4, 68)
        payload_hash == Slice(header, 68, 100)
        payload == Slice(file, HeaderLen, Len(file))
        computed == SHA256(payload)
    IN  IF Len(header) < HeaderLen THEN Fail("header_short", <<"read">>)
        ELSE IF magic # HGAT THEN Fail("bad_magic", <<"read", "magic">>)
        ELSE IF computed # payload_hash
             THEN Fail("hash_mismatch", <<"read", "magic", "sha256">>)
        ELSE IF ~HexOk(pubkey_hex)
             THEN Raise(<<"read", "magic", "sha256", "fromhex">>)
        ELSE IF Len(FromHex(pubkey_hex)) # KeyLen
             THEN Raise(<<"read", "magic", "sha256", "fromhex", "VerifyKey">>)
        ELSE IF ~Ed25519Verify(FromHex(pubkey_hex), payload_hash, sig)
             THEN Fail("image_signature_invalid",
                       <<"read", "magic", "sha256", "fromhex", "VerifyKey", "verify">>)
        ELSE Result("True", "image_verified",
                    <<"read", "magic", "sha256", "fromhex", "VerifyKey", "verify">>,
                    NoCounter, <<>>, computed)

(***************************************************************************)
(* The latest counter reported valid for a key.  The script keeps no       *)
(* state between calls; this is the caller's view of its answers: the      *)
(* counter printed (line 31) by the latest call that returned True.        *)
(***************************************************************************)
\* variant: the counter taken as accepted once the signature has verified
RecordAccepted_OnSignature(store, pubkey_hex, res) ==
    IF res.msg \in {"valid", "too_short"}
    THEN [store EXCEPT ![pubkey_hex] = res.counter]
    ELSE store

RecordAccepted(store, pubkey_hex, res) ==
    IF res.ret = "True" THEN [store EXCEPT ![pubkey_hex] = res.counter] ELSE store

(***************************************************************************)
(* Inputs.  Bounds on the variable-length parts, then the keys, packets,   *)
(* signatures and image files the calls are made with.                     *)
(***************************************************************************)
MaxExtraLen == 1
MaxPayloadLen == 2

\* all byte strings of length up to n over the bytes in S
RECURSIVE SeqsUpTo(_, _)
SeqsUpTo(S, n) ==
    IF n = 0 THEN {<<>>}
    ELSE LET shorter == SeqsUpTo(S, n - 1)
         IN  shorter \cup {Append(s, b) : s \in {x \in shorter : Len(x) = n - 1}, b \in S}

KeyA == Rep(17, KeyLen)
KeyB == Rep(34, KeyLen)
GoodHexKeys == {HexOf(KeyA), HexOf(KeyB)}
\* a 31-byte key, and a hex string with an odd number of digits
ShortHexKey == HexOf(Rep(17, KeyLen - 1))
OddHexKey == SubSeq(HexOf(KeyA), 1, 2 * KeyLen - 1)
HexKeys == GoodHexKeys \cup {ShortHexKey, OddHexKey}

\* counters as numerals, most significant digit first
Num(hi, lo) == Rep(0, CounterLen - 2) \o <<hi, lo>>
NMax == Rep(255, CounterLen)
Counters == {Num(0, 0), Num(0, 5), NMax}
\* N and N + 1, with and without a carry between bytes
CounterPairs == {<<Num(0, 0), Num(0, 1)>>, <<Num(0, 5), Num(0, 6)>>,
                 <<Num(0, 255), Num(1, 0)>>}

\* the device's encoding of a counter: 8 bytes, least significant first
PackQ(n) == [i \in 1..CounterLen |-> n[CounterLen + 1 - i]]

MkPacket(n, pcr, extra) == PackQ(n) \o pcr \o extra

PcrAA == Rep(170, 32)
PcrAB == [PcrAA EXCEPT ![32] = 171]
Extras == SeqsUpTo({7, 9}, MaxExtraLen)
P5 == MkPacket(Num(0, 5), PcrAA, <<>>)

Packets ==
    {MkPacket(n, PcrAA, <<>>) : n \in Counters}
    \cup {MkPacket(Num(0, 5), PcrAA, x) : x \in Extras}
    \cup {MkPacket(Num(0, 5), PcrAB, <<>>), Slice(P5, 0, MinPacketLen - 1), <<>>}

Tamper(s, i) == [s EXCEPT ![i] = (s[i] + 1) % Byte]

\* signatures offered with packet p: genuine ones by either key, the genuine
\* signature of another packet, and a genuine one with a byte changed
Sigs(p) ==
    LET good == Sign(KeyA, p)
    IN  {good, Sign(KeyB, p), Sign(KeyA, P5), Tamper(good, 1), Tamper(good, SigLen)}

\* signatures of 63 and 65 bytes
BadLenSigs(p) == {SubSeq(Sign(KeyA, p), 1, SigLen - 1), Sign(KeyA, p) \o <<0>>}

Short39 == Slice(P5, 0, MinPacketLen - 1)

\* the argument triples verify_attestation is called with
AttestArgs ==
    UNION {{<<k, p, s>> : k \in GoodHexKeys, s \in Sigs(p)} : p \in Packets}
    \cup UNION {{<<k, p, s>> : k \in GoodHexKeys, s \in BadLenSigs(p)} : p \in {P5, Short39}}
    \cup {<<k, p, Sign(KeyA, p)>> : k \in {ShortHexKey, OddHexKey}, p \in {P5, Short39}}

Payloads == SeqsUpTo({1, 2}, MaxPayloadLen)

\* a compliant image: magic, signature of the payload hash, payload hash, payload
MkImage(key, payload) ==
    HGAT \o Sign(key, SHA256(payload)) \o SHA256(payload) \o payload

\* the header of one image followed by another payload
SwapPayload(img, payload) == Slice(img, 0, HeaderLen) \o payload

Images ==
    LET good == {MkImage(KeyA, p) : p \in Payloads}
        base == {MkImage(KeyA, <<>>), MkImage(KeyA, <<1>>)}
    IN  good
        \cup {MkImage(KeyB, <<1>>)}
        \cup {Tamper(g, MagicLen) : g \in good}
        \cup {Tamper(Tamper(Tamper(g, MagicLen), MagicLen + 1), MagicLen + SigLen + 1) :
                g \in base}
        \cup {Tamper(g, MagicLen + 1) : g \in base}
        \cup {Tamper(g, MagicLen + SigLen + 1) : g \in base}
        \cup {SwapPayload(g, p) : g \in base, p \in Payloads}
        \cup {Slice(g, 0, HeaderLen - 1) : g \in base}
        \cup {Slice(Tamper(g, 1), 0, HeaderLen - 1) : g \in base}
        \cup {<<>>, Slice(HGAT, 0, 3)}

\* the argument pairs verify_image is called with
ImageArgs ==
    (GoodHexKeys \X Images)
    \cup ({ShortHexKey, OddHexKey}
          \X {MkImage(KeyA, <<1>>), Tamper(MkImage(KeyA, <<1>>), MagicLen),
              SwapPayload(MkImage(KeyA, <<1>>), <<2>>), <<>>})

(***************************************************************************)
(* Sequential calls: one action per entry point, each a whole call.        *)
(***************************************************************************)
Threads == {1, 2}

NoCall == [fn |-> "none", pubkey_hex |-> <<>>, packet |-> <<>>, sig |-> <<>>,
           file |-> <<>>, res |-> NoResult]
NoArg == [pubkey_hex |-> <<>>, packet |-> <<>>, sig |-> <<>>]
NoStore == [k \in HexKeys |-> NoCounter]

Init ==
    /\ last = NoCall
    /\ last_counter = NoStore
    /\ prev_counter = NoStore
    /\ pc = [t \in Threads |-> 0]
    /\ targ = [t \in Threads |-> NoArg]
    /\ tres = [t \in Threads |-> NoResult]

\* every call of verify_attestation on the inputs, with its result
AttestCalls ==
    {[fn |-> "attest", pubkey_hex |-> a[1], packet |-> a[2], sig |-> a[3],
      file |-> <<>>, res |-> verify_attestation(a[1], a[2], a[3])] : a \in AttestArgs}

\* every call of verify_image on the inputs, with its result
ImageCalls ==
    {[fn |-> "image", pubkey_hex |-> a[1], packet |-> <<>>, sig |-> <<>>,
      file |-> a[2], res |-> verify_image(a[1], a[2])] : a \in ImageArgs}

AttestCall ==
    \E c \in AttestCalls :
        /\ last' = c
        /\ prev_counter' = last_counter
        /\ last_counter' = RecordAccepted(last_counter, c.pubkey_hex, c.res)
        /\ UNCHANGED <<pc, targ, tres>>

ImageCall ==
    \E c \in ImageCalls :
        /\ last' = c
        /\ prev_counter' = last_counter
        /\ UNCHANGED <<last_counter, pc, targ, tres>>

Next == AttestCall \/ ImageCall

Spec == Init /\ [][Next]_vars

(***************************************************************************)
(* Concurrent calls of verify_attestation: two threads, one with counter   *)
(* N and one with N + 1, for the same key.  A call touches nothing but its *)
(* arguments, so a thread performs the operations of its call one by one   *)
(* (res.ops) and returns at the last.  pc[t] counts the operations done;   *)
(* tres[t] holds the result once the call has returned.                    *)
(***************************************************************************)
ThreadResult(t) == verify_attestation(targ[t].pubkey_hex, targ[t].packet, targ[t].sig)

InitConc ==
    /\ last = NoCall
    /\ last_counter = NoStore
    /\ prev_counter = NoStore
    /\ \E k \in GoodHexKeys, pair \in CounterPairs, x \in Extras :
          LET p1 == MkPacket(pair[1], PcrAA, x)
              p2 == MkPacket(pair[2], PcrAA, x)
          IN  targ = [t \in Threads |->
                        IF t = 1
                        THEN [pubkey_hex |-> k, packet |-> p1,
                              sig |-> Sign(FromHex(k), p1)]
                        ELSE [pubkey_hex |-> k, packet |-> p2,
                              sig |-> Sign(FromHex(k), p2)]]
    /\ pc = [t \in Threads |-> 0]
    /\ tres = [t \in Threads |-> NoResult]

ThreadStep(t) ==
    /\ tres[t] = NoResult
    /\ pc[t] + 1 < Len(ThreadResult(t).ops)
    /\ pc' = [pc EXCEPT ![t] = pc[t] + 1]
    /\ UNCHANGED <<last, last_counter, prev_counter, targ, tres>>

ThreadReturn(t) ==
    /\ tres[t] = NoResult
    /\ pc[t] + 1 = Len(ThreadResult(t).ops)
    /\ pc' = [pc EXCEPT ![t] = pc[t] + 1]
    /\ tres' = [tres EXCEPT ![t] = ThreadResult(t)]
    /\ prev_counter' = last_counter
    /\ last_counter' = RecordAccepted(last_counter, targ[t].pubkey_hex, ThreadResult(t))
    /\ UNCHANGED <<last, targ>>

NextConc == \E t \in Threads : ThreadStep(t) \/ ThreadReturn(t)

SpecConc == InitConc /\ [][NextConc]_vars

(***************************************************************************)
(* Properties.  Each is stated about the latest call (last), with the      *)
(* accepted counters before it (prev_counter) and after it (last_counter). *)
(***************************************************************************)
Ops(res) == {res.ops[i] : i \in 1..Len(res.ops)}

\* a < b for two numerals of the same length
RECURSIVE NumLess(_, _)
NumLess(a, b) ==
    IF Len(a) = 0 THEN FALSE
    ELSE IF Head(a) # Head(b) THEN Head(a) < Head(b)
    ELSE NumLess(Tail(a), Tail(b))

NumLeq(a, b) == a = b \/ NumLess(a, b)

IsAttest == last.fn = "attest"
IsImage == last.fn = "image"

\* the key decodes to 32 bytes
KeyWellFormed(h) == HexOk(h) /\ Len(FromHex(h)) = KeyLen

\* the signature of the latest attestation call is the genuine signature of
\* the whole packet under the key passed
CorrectlySigned ==
    /\ KeyWellFormed(last.pubkey_hex)
    /\ last.sig = Sign(FromHex(last.pubkey_hex), last.packet)

\* the counter field of the latest packet, as a numeral
PacketCounter == [i \in 1..CounterLen |-> last.packet[CounterLen + 1 - i]]

\* the fields of the latest image file
FileHeaderOk == Len(last.file) >= HeaderLen
FileMagicOk == Slice(last.file, 0, 4) = HGAT
FileSig == Slice(last.file, 4, 68)
FileHash == Slice(last.file, 68, 100)
FilePayload == Slice(last.file, HeaderLen, Len(last.file))
FileHashOk == SHA256(FilePayload) = FileHash

\* C1: a correctly signed packet of at least 40 bytes whose counter is at most
\* the last counter accepted for its key is rejected and leaves the accepted
\* counters as they were; one whose counter is greater is accepted and its
\* counter becomes the last accepted for the key.
C1_RegressionRejected ==
    (IsAttest /\ CorrectlySigned /\ Len(last.packet) >= MinPacketLen
        /\ prev_counter[last.pubkey_hex] # NoCounter)
    => IF NumLeq(PacketCounter, prev_counter[last.pubkey_hex])
       THEN last.res.ret = "False" /\ last_counter = prev_counter
       ELSE last.res.ret = "True" /\ last_counter[last.pubkey_hex] = PacketCounter

\* C2: an attestation is reported valid only if the signature is the genuine
\* signature of the whole packet, extra bytes included, under the key passed;
\* the same call with any one byte of the packet or of the signature changed
\* is not reported valid.
C2_ValidOnlyIfWholePacketSigned ==
    (IsAttest /\ last.res.ret = "True")
    => /\ CorrectlySigned
       /\ \A d \in {1, 128, 255} :
            /\ \A i \in 1..Len(last.packet) :
                 verify_attestation(last.pubkey_hex,
                     [last.packet EXCEPT ![i] = (last.packet[i] + d) % Byte],
                     last.sig).ret # "True"
            /\ \A i \in 1..Len(last.sig) :
                 verify_attestation(last.pubkey_hex, last.packet,
                     [last.sig EXCEPT ![i] = (last.sig[i] + d) % Byte]).ret # "True"

\* a packet with extra bytes beyond offset 40 has been reported valid
C2_Witness == IsAttest /\ last.res.ret = "True" /\ Len(last.packet) > MinPacketLen

\* C3: with two concurrent verifications for one key, of counters N (thread 1)
\* and N + 1 (thread 2), the counter accepted for the key never decreases, and
\* when both have been accepted the last accepted one is N + 1.
C3_NoDecreaseUnderConcurrency ==
    \A k \in HexKeys :
        /\ prev_counter[k] # NoCounter => ~NumLess(last_counter[k], prev_counter[k])
        /\ (tres[1].ret = "True" /\ tres[2].ret = "True" /\ k = targ[2].pubkey_hex)
           => last_counter[k] = tres[2].counter

C5_TruncatedBeforeSignature ==
    (IsAttest /\ Len(last.packet) < MinPacketLen)
    => last.res.msg = "too_short" /\ "verify" \notin Ops(last.res)

\* C5 amended: a packet shorter than 40 bytes is never reported valid; it fails
\* as truncated exactly when its signature is genuine, and then the signature
\* was checked before the length; with a well-formed key and signature that
\* do not verify it fails as signature mismatch.
C5_TruncatedAfterSignature ==
    (IsAttest /\ Len(last.packet) < MinPacketLen)
    => /\ last.res.ret # "True"
       /\ (last.res.msg = "too_short") <=> CorrectlySigned
       /\ last.res.msg = "too_short"
            => last.res.ops = <<"fromhex", "VerifyKey", "verify", "len">>
       /\ (KeyWellFormed(last.pubkey_hex) /\ Len(last.sig) = SigLen /\ ~CorrectlySigned)
            => last.res.msg = "signature_mismatch"

\* a genuinely signed 39-byte packet has failed as truncated
C5_Witness ==
    IsAttest /\ Len(last.packet) = MinPacketLen - 1 /\ CorrectlySigned
        /\ last.res.msg = "too_short"

\* C6: an image whose payload does not hash to the hash stated in its header
\* is rejected as a hash mismatch without the signature being checked, also
\* when the header's signature is genuine for the stated hash.
C6_HashMismatchRejected ==
    (IsImage /\ FileHeaderOk /\ FileMagicOk /\ ~FileHashOk)
    => /\ last.res.ret = "False"
       /\ last.res.msg = "hash_mismatch"
       /\ "verify" \notin Ops(last.res)

\* an image with a wrong stated hash that is genuinely signed for the key
C6_Witness ==
    /\ IsImage /\ FileHeaderOk /\ FileMagicOk /\ ~FileHashOk
    /\ KeyWellFormed(last.pubkey_hex)
    /\ FileSig = Sign(FromHex(last.pubkey_hex), FileHash)
    /\ last.res.msg = "hash_mismatch"

\* C7: verify_image checks header length, magic, payload hash and signature in
\* that order and reports the first failure: a short header is rejected before
\* the magic is examined, a wrong magic before any hash or signature work.
C7_CheckOrder ==
    IsImage
    => /\ ~FileHeaderOk => (last.res.msg = "header_short" /\ last.res.ops = <<"read">>)
       /\ (FileHeaderOk /\ ~FileMagicOk)
            => (last.res.msg = "bad_magic" /\ last.res.ops = <<"read", "magic">>)
       /\ (FileHeaderOk /\ FileMagicOk /\ ~FileHashOk)
            => (last.res.msg = "hash_mismatch"
                /\ last.res.ops = <<"read", "magic", "sha256">>)
       /\ (FileHeaderOk /\ FileMagicOk /\ FileHashOk /\ KeyWellFormed(last.pubkey_hex)
             /\ FileSig # Sign(FromHex(last.pubkey_hex), FileHash))
            => last.res.msg = "image_signature_invalid"

\* an image whose magic, stated hash and signature are all wrong is rejected
\* for its magic
C7_Witness ==
    /\ IsImage /\ FileHeaderOk /\ ~FileMagicOk /\ ~FileHashOk
    /\ KeyWellFormed(last.pubkey_hex)
    /\ FileSig # Sign(FromHex(last.pubkey_hex), FileHash)
    /\ last.res.msg = "bad_magic"

\* C8: an image built as HGAT, the signature of SHA-256(payload), SHA-256 of
\* the payload and the payload is accepted under the signer's public key, and
\* the digest reported is SHA-256(payload).
C8_RoundTrip ==
    (IsImage /\ KeyWellFormed(last.pubkey_hex)
        /\ \E p \in Payloads : last.file = MkImage(FromHex(last.pubkey_hex), p))
    => /\ last.res.ret = "True"
       /\ last.res.digest = SHA256(FilePayload)

\* a compliant image with a payload of the greatest length has been verified
C8_Witness ==
    /\ IsImage /\ KeyWellFormed(last.pubkey_hex)
    /\ last.file = MkImage(FromHex(last.pubkey_hex), FilePayload)
    /\ Len(FilePayload) = MaxPayloadLen
    /\ last.res.ret = "True"

\* C9: a key that is not 32 bytes, or for attestations a signature that is not
\* 64 bytes, yields a returned failure of its own kind, not an exception.
C9_MalformedIsAResult ==
    ((IsAttest \/ IsImage)
        /\ (~KeyWellFormed(last.pubkey_hex) \/ (IsAttest /\ Len(last.sig) # SigLen)))
    => /\ last.res.ret = "False"
       /\ last.res.msg = "malformed_key_or_signature"

====
